---- MODULE Spec2Model ----
(***************************************************************************)
(* Model of app.py (the Across Mexico operations calendar): the SQLite     *)
(* table "activities" with its store functions (load_df, upsert_row,       *)
(* delete_activity, import_csv), the Streamlit handlers that call them,    *)
(* and the month grid of month_calendar_figure.                            *)
(*                                                                         *)
(* A text (Python str) is a sequence of one-character strings, so that     *)
(* str.strip, pd.to_datetime and strftime are computed character by        *)
(* character.  A row carries five of the table's fourteen columns: the     *)
(* key, the two datetime columns, and supplier_name and title (the two     *)
(* free-text columns the month grid prints); the other nine are free text  *)
(* handled exactly like title.                                             *)
(***************************************************************************)
EXTENDS Integers, Sequences, FiniteSets, TLC

VARIABLES store, prev, op, msg, work, pc, df, fig

vars == <<store, prev, op, msg, work, pc, df, fig>>

(* ---------------------------- bounds ----------------------------------- *)
MaxRows == 3
MaxEvents == 3
MaxLines == 2

(* ---------------------------- texts ------------------------------------ *)
NULL == <<"<NULL>">>

DigitChar == <<"0", "1", "2", "3", "4", "5", "6", "7", "8", "9">>

IsDigit(c) == \E i \in 1..10 : DigitChar[i] = c

CharDigit(c) == (CHOOSE i \in 1..10 : DigitChar[i] = c) - 1

RECURSIVE lstrip(_)
lstrip(s) == IF s # <<>> /\ Head(s) = " " THEN lstrip(Tail(s)) ELSE s

RECURSIVE rstrip(_)
rstrip(s) ==
  IF s # <<>> /\ s[Len(s)] = " " THEN rstrip(SubSeq(s, 1, Len(s) - 1)) ELSE s

strip(s) == rstrip(lstrip(s))

Format2(n) == <<DigitChar[(n \div 10) + 1], DigitChar[(n % 10) + 1]>>

Format4(n) == Format2(n \div 100) \o Format2(n % 100)

(* "%H:%M" *)
strftimeHM(ts) == Format2(ts.hour) \o <<":">> \o Format2(ts.minute)

(* "%Y-%m-%d %H:%M" *)
strftime(ts) ==
  Format4(ts.year) \o <<"-">> \o Format2(ts.month) \o <<"-">> \o Format2(ts.day)
    \o <<" ">> \o strftimeHM(ts)

(* ---------------------------- timestamps ------------------------------- *)
Timestamp(y, m, d, h, mi) ==
  [kind |-> "ts", year |-> y, month |-> m, day |-> d, hour |-> h, minute |-> mi]

NaT == [kind |-> "NaT", year |-> 0, month |-> 0, day |-> 0, hour |-> 0, minute |-> 0]

ParseError ==
  [kind |-> "error", year |-> 0, month |-> 0, day |-> 0, hour |-> 0, minute |-> 0]

isleap(y) == y % 4 = 0 /\ (y % 100 # 0 \/ y % 400 = 0)

DaysInMonth(y, m) ==
  IF m = 2 THEN (IF isleap(y) THEN 29 ELSE 28)
  ELSE IF m \in {4, 6, 9, 11} THEN 30 ELSE 31

Num2(s, i) == 10 * CharDigit(s[i]) + CharDigit(s[i + 1])

(* pd.to_datetime on one value: a missing value or the empty string gives  *)
(* NaT without raising; "YYYY-MM-DD HH:MM" with fields in range gives the  *)
(* timestamp; every other text of the inputs enumerated here raises.       *)
to_datetime(s) ==
  IF s = NULL \/ s = <<>> THEN NaT
  ELSE IF /\ Len(s) = 16
          /\ s[5] = "-" /\ s[8] = "-" /\ s[11] = " " /\ s[14] = ":"
          /\ \A i \in {1, 2, 3, 4, 6, 7, 9, 10, 12, 13, 15, 16} : IsDigit(s[i])
       THEN LET y == 100 * Num2(s, 1) + Num2(s, 3)
                m == Num2(s, 6)
                d == Num2(s, 9)
                h == Num2(s, 12)
                mi == Num2(s, 15)
            IN IF /\ y >= 1 /\ m \in 1..12 /\ d >= 1 /\ d <= DaysInMonth(y, m)
                  /\ h <= 23 /\ mi <= 59
               THEN Timestamp(y, m, d, h, mi)
               ELSE ParseError
       ELSE ParseError

(* ---------------------------- the table -------------------------------- *)
TableColumns ==
  {"activity_id", "supplier_name", "title", "start_datetime", "end_datetime"}

(* A frame row over some columns, as the full table row: absent columns    *)
(* are NULL.                                                               *)
FullRow(columns, r) ==
  [c \in TableColumns |-> IF c \in columns THEN r[c] ELSE NULL]

(* Faulty variant: the table was created without its PRIMARY KEY.          *)
PrimaryKeyOk_none(table, row) == TRUE

(* activity_id TEXT PRIMARY KEY of a rowid table: unique among non-NULL    *)
(* values, NULL admitted.                                                  *)
PrimaryKeyOk(table, row) ==
  \/ row.activity_id = NULL
  \/ \A i \in 1..Len(table) : table[i].activity_id # row.activity_id

RECURSIVE InsertAll(_, _, _)
InsertAll(table, columns, rows) ==
  IF rows = <<>> THEN [err |-> "none", table |-> table]
  ELSE LET row == FullRow(columns, Head(rows))
       IN IF PrimaryKeyOk(table, row)
          THEN InsertAll(Append(table, row), columns, Tail(rows))
          ELSE [err |-> "IntegrityError", table |-> table]

(* Faulty variant: columns the table does not have are dropped before the INSERT. *)
to_sql_dropping(table, frame) ==
  InsertAll(table, frame.columns \cap TableColumns, frame.rows)

(* DataFrame.to_sql("activities", conn, if_exists="append", index=False):  *)
(* one INSERT naming the frame's columns, executed for all rows; a frame   *)
(* without rows executes nothing.                                          *)
to_sql(table, frame) ==
  IF frame.rows = <<>> THEN [err |-> "none", table |-> table]
  ELSE IF ~(frame.columns \subseteq TableColumns)
  THEN [err |-> "OperationalError", table |-> table]
  ELSE InsertAll(table, frame.columns, frame.rows)

(* Faulty variant: the DELETE lost its WHERE clause.                       *)
DeleteWhere_all(table, id) == <<>>

(* DELETE FROM activities WHERE activity_id = :id *)
DeleteWhere(table, id) == SelectSeq(table, LAMBDA r : r.activity_id # id)

(* Faulty variant: every statement is committed as it runs (no rollback).  *)
begin_autocommit(committed, res) == res

(* with engine.begin() as conn: commit on normal exit, rollback when the   *)
(* block raises.                                                           *)
begin(committed, res) ==
  [err |-> res.err, table |-> IF res.err = "none" THEN res.table ELSE committed]

(* SELECT * FROM activities; an access fault yields the empty frame.       *)
load_df(table, fault) == IF fault THEN <<>> ELSE table

(* Faulty variant: the DELETE is missing and the row is appended unchecked. *)
upsert_row_append(table, row) ==
  [err |-> "none", table |-> Append(table, FullRow(DOMAIN row, row))]

(* Faulty variant: an UPDATE that merges, keeping the stored title of that id. *)
upsert_row_merge(table, row) ==
  [err |-> "none",
   table |-> IF \E i \in 1..Len(table) : table[i].activity_id = row.activity_id
             THEN [i \in 1..Len(table) |->
                    IF table[i].activity_id = row.activity_id
                    THEN [row EXCEPT !.title = table[i].title] ELSE table[i]]
             ELSE Append(table, row)]

upsert_row(table, row) ==
  begin(table,
        to_sql(DeleteWhere(table, row.activity_id),
               [columns |-> DOMAIN row, rows |-> <<row>>]))

delete_activity(table, id) ==
  begin(table, [err |-> "none", table |-> DeleteWhere(table, id)])

(* ---------------------------- import ----------------------------------- *)
(* pd.read_csv of a delimited text [header, lines].  When the first data   *)
(* line has more fields than the header, the surplus leading fields become *)
(* an implicit index; a later line with more fields than that width raises *)
(* ParserError; a shorter line is padded with missing values; an empty     *)
(* field is a missing value.                                               *)
Cell(line, j) == IF j > Len(line) \/ line[j] = <<>> THEN NULL ELSE line[j]

Position(header, c) == CHOOSE j \in 1..Len(header) : header[j] = c

read_csv(csv) ==
  LET header == csv.header
      lines == csv.lines
      leading == IF lines # <<>> /\ Len(lines[1]) > Len(header)
                 THEN Len(lines[1]) - Len(header) ELSE 0
      columns == {header[j] : j \in 1..Len(header)}
  IN IF \E i \in 1..Len(lines) : Len(lines[i]) > Len(header) + leading
     THEN [err |-> "ParserError", columns |-> columns, rows |-> <<>>]
     ELSE [err |-> "none", columns |-> columns,
           rows |-> [i \in 1..Len(lines) |->
                      [c \in columns |->
                        Cell(lines[i], leading + Position(header, c))]]]

import_csv(table, csv) ==
  LET frame == read_csv(csv)
  IN IF frame.err # "none" THEN [err |-> frame.err, table |-> table]
     ELSE begin(table, to_sql(table, frame))

(* ---------------------------- handlers --------------------------------- *)
Message(kind, cause) == [kind |-> kind, cause |-> cause]

(* sidebar button "Cargar CSV de ejemplo" *)
import_button(table, csv) ==
  LET res == import_csv(table, csv)
  IN [table |-> res.table,
      msg |-> IF res.err = "none" THEN Message("success", "none")
              ELSE Message("error", res.err)]

(* activity_form, "Guardar/Actualizar" *)
FormRow(form) == [c \in DOMAIN form |-> strip(form[c])]

activity_form(table, form) ==
  IF strip(form.activity_id) = <<>>
  THEN [table |-> table, msg |-> Message("error", "MissingId")]
  ELSE LET row == FormRow(form)
       IN IF \/ to_datetime(row.start_datetime).kind = "error"
             \/ to_datetime(row.end_datetime).kind = "error"
          THEN [table |-> table, msg |-> Message("error", "ValueError")]
          ELSE LET res == upsert_row(table, row)
               IN [table |-> res.table,
                   msg |-> IF res.err = "none" THEN Message("success", "none")
                           ELSE Message("error", res.err)]

(* button "Borrar actividad" *)
delete_button(table, del_id) ==
  IF strip(del_id) # <<>>
  THEN [table |-> delete_activity(table, strip(del_id)).table,
        msg |-> Message("warning", "deleted")]
  ELSE [table |-> table, msg |-> Message("none", "none")]

(* ---------------------------- inputs ----------------------------------- *)
tA == <<"A">>
tB == <<"B">>
tC == <<"C">>
tG == <<"G">>
tE == <<"E">>
tT == <<"T">>
tU == <<"U">>
tZ == <<"z">>

Pad(s) == <<" ">> \o s \o <<" ">>

Activity(id, sup, title, start, end) ==
  [activity_id |-> id, supplier_name |-> sup, title |-> title,
   start_datetime |-> start, end_datetime |-> end]

D1 == strftime(Timestamp(2025, 3, 5, 9, 0))
D2 == strftime(Timestamp(2025, 3, 5, 10, 0))
BadMonth == strftime(Timestamp(2025, 13, 5, 9, 0))
Garbage == <<"x", "y">>

(* what the user types into activity_form *)
Forms ==
  { Activity(tA, tG, tT, D1, D2),
    Activity(tA, tE, tU, D2, D2),
    Activity(Pad(tA), tG, Pad(tU), Pad(D1), D2),
    Activity(tB, tE, tU, D1, D2),
    Activity(<<>>, tG, tT, D1, D2),
    Activity(<<" ">>, tG, tT, D1, D2),
    Activity(tB, tG, tT, Garbage, D2),
    Activity(tA, tG, tT, D1, BadMonth),
    Activity(tA, tG, tT, <<>>, D2),
    Activity(tB, tG, tT, D1, <<" ">>) }

(* what the user types into "ID a borrar" *)
DeleteIds == { <<>>, <<" ">>, tA, Pad(tB), tC }

(* the delimited texts offered to import_csv *)
HeaderFull ==
  <<"activity_id", "supplier_name", "title", "start_datetime", "end_datetime">>
HeaderNoId == <<"supplier_name", "title", "start_datetime", "end_datetime">>
HeaderExtra ==
  <<"activity_id", "supplier_name", "title", "start_datetime", "end_datetime",
    "extra">>
HeaderReordered ==
  <<"title", "start_datetime", "activity_id", "end_datetime", "supplier_name">>

CsvLine(header, a) ==
  [j \in 1..Len(header) |-> IF header[j] \in DOMAIN a THEN a[header[j]] ELSE tZ]

Short(line) == SubSeq(line, 1, Len(line) - 1)

Long(line) == Append(line, tZ)

Csv(header, lines) == [header |-> header, lines |-> lines]

aA == Activity(tA, tG, tT, D1, D2)
aA2 == Activity(tA, tE, tU, D2, D2)
aB == Activity(tB, tE, tU, D1, D2)
aNoId == Activity(<<>>, tG, tT, D1, D2)
aBad == Activity(tB, tG, tT, Garbage, D2)

Csvs ==
  { Csv(HeaderFull, <<>>),
    Csv(HeaderFull, <<CsvLine(HeaderFull, aA)>>),
    Csv(HeaderFull, <<CsvLine(HeaderFull, aA), CsvLine(HeaderFull, aB)>>),
    Csv(HeaderFull, <<CsvLine(HeaderFull, aB), CsvLine(HeaderFull, aA2)>>),
    Csv(HeaderFull, <<CsvLine(HeaderFull, aA), CsvLine(HeaderFull, aA2)>>),
    Csv(HeaderFull, <<CsvLine(HeaderFull, aBad)>>),
    Csv(HeaderFull, <<CsvLine(HeaderFull, aNoId)>>),
    Csv(HeaderFull, <<CsvLine(HeaderFull, aA), Long(CsvLine(HeaderFull, aB))>>),
    Csv(HeaderFull, <<Long(CsvLine(HeaderFull, aA))>>),
    Csv(HeaderFull, <<CsvLine(HeaderFull, aA), Short(CsvLine(HeaderFull, aB))>>),
    Csv(HeaderReordered, <<CsvLine(HeaderReordered, aB)>>),
    Csv(HeaderNoId, <<CsvLine(HeaderNoId, aA)>>),
    Csv(HeaderNoId, <<CsvLine(HeaderNoId, aA), CsvLine(HeaderNoId, aB)>>),
    Csv(HeaderExtra, <<>>),
    Csv(HeaderExtra, <<CsvLine(HeaderExtra, aA)>>),
    Csv(HeaderExtra, <<CsvLine(HeaderExtra, aB), CsvLine(HeaderExtra, aA)>>) }

(* ---------------------------- state machine ---------------------------- *)
NoOp == [name |-> "none", arg |-> <<>>]
NoFig == [kind |-> "none"]
NoRead == [rows |-> <<>>, fault |-> FALSE, pc |-> "none"]

Init ==
  /\ store = <<>>
  /\ prev = <<>>
  /\ op = NoOp
  /\ msg = Message("none", "none")
  /\ work = <<>>
  /\ pc = "idle"
  /\ df = NoRead
  /\ fig = NoFig

Handled(name, arg, res) ==
  /\ Len(res.table) <= MaxRows
  /\ prev' = store
  /\ op' = [name |-> name, arg |-> arg]
  /\ store' = res.table
  /\ msg' = res.msg
  /\ UNCHANGED <<work, pc, df, fig>>

ImportCsv == \E csv \in Csvs : Handled("import", csv, import_button(store, csv))

Submit == \E form \in Forms : Handled("submit", form, activity_form(store, form))

Delete == \E id \in DeleteIds : Handled("delete", id, delete_button(store, id))

Next == ImportCsv \/ Submit \/ Delete

Spec == Init /\ [][Next]_vars

(* ---------------------------- upsert_row, statement by statement ------ *)
(* The same upsert_row as its transaction runs: BEGIN, DELETE, INSERT,     *)
(* COMMIT on the writer's connection, with work the writer's uncommitted   *)
(* view; a fault inside the with block leaves it through the rollback.     *)
(* load_df of another session reads on a connection of its own.            *)
InTxn == pc \in {"begun", "deleted", "inserted"}

Visible(committed, working, open) == committed

TxnBegin ==
  \E form \in Forms :
    /\ pc = "idle"
    /\ Len(store) < MaxRows
    /\ strip(form.activity_id) # <<>>
    /\ to_datetime(strip(form.start_datetime)).kind # "error"
    /\ to_datetime(strip(form.end_datetime)).kind # "error"
    /\ op' = [name |-> "submit", arg |-> form]
    /\ prev' = store
    /\ work' = store
    /\ pc' = "begun"
    /\ msg' = Message("none", "none")
    /\ UNCHANGED <<store, df, fig>>

TxnDelete ==
  /\ pc = "begun"
  /\ work' = DeleteWhere(work, FormRow(op.arg).activity_id)
  /\ pc' = "deleted"
  /\ UNCHANGED <<store, prev, op, msg, df, fig>>

TxnInsert ==
  /\ pc = "deleted"
  /\ LET row == FormRow(op.arg)
         res == to_sql(work, [columns |-> DOMAIN row, rows |-> <<row>>])
     IN IF res.err = "none"
        THEN /\ work' = res.table
             /\ pc' = "inserted"
             /\ UNCHANGED <<store, msg>>
        ELSE /\ store' = begin(store, res).table
             /\ work' = <<>>
             /\ pc' = "idle"
             /\ msg' = Message("error", res.err)
  /\ UNCHANGED <<prev, op, df, fig>>

TxnCommit ==
  /\ pc = "inserted"
  /\ store' = begin(store, [err |-> "none", table |-> work]).table
  /\ work' = <<>>
  /\ pc' = "idle"
  /\ msg' = Message("success", "none")
  /\ UNCHANGED <<prev, op, df, fig>>

TxnFault ==
  /\ InTxn
  /\ store' = begin(store, [err |-> "Fault", table |-> work]).table
  /\ work' = <<>>
  /\ pc' = "idle"
  /\ msg' = Message("error", "Fault")
  /\ UNCHANGED <<prev, op, df, fig>>

Read ==
  /\ \E fault \in BOOLEAN :
       df' = [rows |-> load_df(Visible(store, work, InTxn), fault),
              fault |-> fault, pc |-> pc]
  /\ UNCHANGED <<store, prev, op, msg, work, pc, fig>>

NextTxn == TxnBegin \/ TxnDelete \/ TxnInsert \/ TxnCommit \/ TxnFault \/ Read

SpecTxn == Init /\ [][NextTxn]_vars

(* ---------------------------- month grid ------------------------------- *)
DaysBeforeYear(y) ==
  LET p == y - 1 IN 365 * p + (p \div 4) - (p \div 100) + (p \div 400)

RECURSIVE DaysBeforeMonth(_, _)
DaysBeforeMonth(y, m) ==
  IF m = 1 THEN 0 ELSE DaysBeforeMonth(y, m - 1) + DaysInMonth(y, m - 1)

toordinal(y, m, d) == DaysBeforeYear(y) + DaysBeforeMonth(y, m) + d

(* Monday is 0 *)
weekday(y, m, d) == (toordinal(y, m, d) + 6) % 7

(* cal.monthcalendar(year, month): weeks of seven day numbers, 0 = outside *)
monthcalendar(y, m) ==
  LET first == weekday(y, m, 1)
      ndays == DaysInMonth(y, m)
      nweeks == (first + ndays + 6) \div 7
  IN [r \in 1..nweeks |->
       [c \in 1..7 |->
         LET n == (r - 1) * 7 + c - first
         IN IF n >= 1 /\ n <= ndays THEN n ELSE 0]]

Elements(list) == {list[i] : i \in 1..Len(list)}

(* df["start_dt"] = pd.to_datetime(df["start_datetime"]) *)
RECURSIVE with_start_dt(_)
with_start_dt(df_) ==
  IF df_ = <<>> THEN <<>>
  ELSE <<[row |-> Head(df_), start_dt |-> to_datetime(Head(df_).start_datetime)]>>
         \o with_start_dt(Tail(df_))

(* df[(year == year) & (month == month)], then df[supplier_name.isin(...)] *)
InMonth(df_, suppliers, year, month) ==
  SelectSeq(df_, LAMBDA r :
    /\ r.start_dt.kind = "ts"
    /\ r.start_dt.year = year /\ r.start_dt.month = month
    /\ (suppliers = <<>> \/ r.row.supplier_name \in Elements(suppliers)))

SortKey(r) == (r.start_dt.day * 24 + r.start_dt.hour) * 60 + r.start_dt.minute

(* df.sort_values("start_dt") with the default kind="quicksort", which is  *)
(* not a stable sort: every arrangement in ascending start_dt is a result  *)
(* the sort may give.                                                      *)
SortedOrders(rows) ==
  {p \in [1..Len(rows) -> 1..Len(rows)] :
     /\ \A i, j \in 1..Len(rows) : p[i] = p[j] => i = j
     /\ \A i, j \in 1..Len(rows) : i < j => SortKey(rows[p[i]]) <= SortKey(rows[p[j]])}

RECURSIVE Arranged(_, _)
Arranged(rows, order) ==
  IF order = <<>> THEN <<>>
  ELSE <<rows[Head(order)]>> \o Arranged(rows, Tail(order))

Line(r) ==
  r.row.supplier_name \o <<":", " ">> \o strftimeHM(r.start_dt) \o <<" ">>
    \o r.row.title

RECURSIVE Lines(_)
Lines(rows) == IF rows = <<>> THEN <<>> ELSE <<Line(Head(rows))>> \o Lines(Tail(rows))

(* by_day.get(day, []) *)
by_day(sorted, day) == Lines(SelectSeq(sorted, LAMBDA r : r.start_dt.day = day))

Min(a, b) == IF a < b THEN a ELSE b

(* Faulty variant: the "+n más" annotation is never added.                 *)
DayCell_silent(day, eventos, max_lines) ==
  [day |-> day, lines |-> SubSeq(eventos, 1, Min(Len(eventos), max_lines)),
   overflow |-> 0]

(* One cell of the grid: its day number, the lines annotated in it, and    *)
(* the count of the "+n más" annotation (0: no such annotation).           *)
DayCell(day, eventos, max_lines) ==
  LET max_show == Min(Len(eventos), max_lines)
  IN [day |-> day,
      lines |-> SubSeq(eventos, 1, max_show),
      overflow |-> IF Len(eventos) > max_show THEN Len(eventos) - max_show ELSE 0]

(* the rows left after the two filters *)
Kept(df_, suppliers, year, month) ==
  InMonth(with_start_dt(df_), suppliers, year, month)

(* order is the arrangement sort_values produced *)
month_calendar_figure(df_, suppliers, year, month, max_lines, order) ==
  IF \E i \in 1..Len(df_) : to_datetime(df_[i].start_datetime).kind = "error"
  THEN [kind |-> "error", cause |-> "ValueError"]
  ELSE LET sorted == Arranged(Kept(df_, suppliers, year, month), order)
           weeks == monthcalendar(year, month)
       IN IF max_lines = 0 /\ sorted # <<>>
          THEN [kind |-> "error", cause |-> "ZeroDivisionError"]
          ELSE [kind |-> "figure",
                rows |-> Len(weeks),
                cells |-> [r \in 1..Len(weeks) |->
                            [c \in 1..7 |->
                              IF weeks[r][c] = 0
                              THEN [day |-> 0, lines |-> <<>>, overflow |-> 0]
                              ELSE DayCell(weeks[r][c],
                                           by_day(sorted, weeks[r][c]),
                                           max_lines)]]]

(* the frames and arguments month_calendar_figure is applied to *)
D3 == strftime(Timestamp(2025, 3, 5, 8, 0))
D4 == strftime(Timestamp(2025, 3, 31, 23, 59))
D5 == strftime(Timestamp(2025, 4, 1, 8, 0))
tD == <<"D">>
tF == <<"F">>
tH == <<"H">>
tK == <<"K">>

LayoutActs ==
  { Activity(tA, tG, tT, D1, D2),
    Activity(tB, tE, tU, D1, D2),
    Activity(tC, tG, tU, D3, D2),
    Activity(tD, tE, tT, D3, D2),
    Activity(tF, tG, tT, D4, D4),
    Activity(tH, tE, tT, D5, D5),
    Activity(tK, tG, tT, <<>>, D2),
    Activity(tZ, tG, tT, Garbage, D2) }

LayoutFrames ==
  {f \in UNION {[1..n -> LayoutActs] : n \in 0..MaxEvents} :
     \A i, j \in 1..Len(f) : f[i] = f[j] => i = j}

SupplierFilters == { <<>>, <<tG>>, <<tE, tG>> }

Months == { <<2025, 3>>, <<2025, 4>>, <<2027, 2>> }

InitLayout ==
  /\ store \in LayoutFrames
  /\ prev = <<>>
  /\ op = NoOp
  /\ msg = Message("none", "none")
  /\ work = <<>>
  /\ pc = "idle"
  /\ df = NoRead
  /\ fig = NoFig

(* month_calendar_figure applied once to a drawn frame and arguments (it   *)
(* is a pure function: a second application reaches no new figure).        *)
Layout ==
  /\ fig = NoFig
  /\ \E suppliers \in SupplierFilters, ym \in Months, max_lines \in 0..MaxLines :
       LET frame == load_df(store, FALSE)
       IN \E order \in SortedOrders(Kept(frame, suppliers, ym[1], ym[2])) :
            /\ fig' = month_calendar_figure(frame, suppliers, ym[1], ym[2],
                                            max_lines, order)
            /\ op' = [name |-> "layout",
                      arg |-> [suppliers |-> suppliers, year |-> ym[1],
                               month |-> ym[2], max_lines |-> max_lines]]
            /\ UNCHANGED <<store, prev, msg, work, pc, df>>

NextLayout == Layout

SpecLayout == InitLayout /\ [][NextLayout]_vars

(* ---------------------------- properties ------------------------------ *)
Ids(table) == {table[i].activity_id : i \in 1..Len(table)}

Count(table, id) == Cardinality({i \in 1..Len(table) : table[i].activity_id = id})

CountRow(table, r) == Cardinality({i \in 1..Len(table) : table[i] = r})

loadAll == load_df(store, FALSE)

Stripped(form) ==
  Activity(strip(form.activity_id), strip(form.supplier_name), strip(form.title),
           strip(form.start_datetime), strip(form.end_datetime))

Parseable(s) == to_datetime(s).kind = "ts"

(* C1: after an accepted upsert(a), loadAll() holds exactly one record     *)
(* with a.activity_id and that record equals a in every field.             *)
C1_UpsertReplaces ==
  (op.name = "submit" /\ msg.kind = "success") =>
    LET a == Stripped(op.arg)
    IN /\ Count(loadAll, a.activity_id) = 1
       /\ \A i \in 1..Len(loadAll) :
            loadAll[i].activity_id = a.activity_id => loadAll[i] = a

C1_Witness ==
  /\ op.name = "submit" /\ msg.kind = "success"
  /\ \E i \in 1..Len(prev) :
       /\ prev[i].activity_id = Stripped(op.arg).activity_id
       /\ prev[i] # Stripped(op.arg)
  /\ Len(prev) >= 2

(* C2: an upsert with an empty (or whitespace-only) activity_id, or with a *)
(* start_datetime or end_datetime that is not a parseable timestamp (the   *)
(* empty string included), fails and leaves the store as it was.           *)
C2_InvalidUpsertRejected ==
  (/\ op.name = "submit"
   /\ \/ strip(op.arg.activity_id) = <<>>
      \/ ~Parseable(strip(op.arg.start_datetime))
      \/ ~Parseable(strip(op.arg.end_datetime))) =>
    (msg.kind = "error" /\ store = prev)

(* C4: upsert and delete never create two records with one activity_id.    *)
NoSharedId(table) ==
  \A i, j \in 1..Len(table) : table[i].activity_id = table[j].activity_id => i = j

C4_UpsertDeleteKeepIdsUnique ==
  (op.name \in {"submit", "delete"} /\ NoSharedId(prev)) => NoSharedId(store)

C4_Witness ==
  /\ op.name = "submit" /\ msg.kind = "success"
  /\ Stripped(op.arg).activity_id \in Ids(prev)
  /\ Len(store) >= 2 /\ NoSharedId(prev)

(* The batch of an import as read_csv hands it to the store. *)
Batch == read_csv(op.arg)

BatchRows == [i \in 1..Len(Batch.rows) |-> FullRow(Batch.columns, Batch.rows[i])]

BatchIds == Ids(BatchRows) \ {NULL}

ClashingId(id) ==
  \/ id \in Ids(prev) /\ id \in Ids(BatchRows)
  \/ Count(BatchRows, id) > 1

WellFormedSource ==
  /\ op.name = "import"
  /\ Batch.err = "none"
  /\ Batch.columns \subseteq TableColumns

(* C5 as claimed: a batch with an activity_id already stored (or twice in  *)
(* the batch) is imported whole and the id is then stored more than once.  *)
C5_Original ==
  WellFormedSource =>
    \A id \in BatchIds :
      ClashingId(id) =>
        /\ msg.kind = "success"
        /\ Len(store) = Len(prev) + Len(Batch.rows)
        /\ Count(loadAll, id) > 1

(* C5 amended: such a batch is rejected by the primary key: the import     *)
(* fails with an integrity error, no record of the batch is added, and     *)
(* loadAll() never holds that activity_id more than once; a batch without  *)
(* a clashing id is appended whole.                                        *)
C5_DuplicateIdRejected ==
  WellFormedSource =>
    /\ \A id \in BatchIds : Count(loadAll, id) <= 1
    /\ (\E id \in BatchIds : ClashingId(id)) =>
         (msg = Message("error", "IntegrityError") /\ store = prev)
    /\ ~(\E id \in BatchIds : ClashingId(id)) =>
         /\ msg.kind = "success"
         /\ store = prev \o BatchRows

C5_Witness ==
  /\ WellFormedSource
  /\ \E id \in BatchIds : id \in Ids(prev)
  /\ Len(Batch.rows) >= 2
  /\ msg.kind = "error" /\ store = prev

(* C6: an import whose source has no activity_id column fails and leaves   *)
(* the store as it was.                                                    *)
C6_MissingIdColumnRejected ==
  (op.name = "import" /\ "activity_id" \notin Batch.columns) =>
    (msg.kind = "error" /\ store = prev)

(* C7: an import is all-or-nothing: when a line is refused by the parser   *)
(* or a row by the store, the import fails, the error names its cause, and *)
(* the store is as before (rows ahead of the bad one included); only a     *)
(* successful import changes the store, adding every row of the batch.     *)
RefusedLine ==
  \E i \in 2..Len(op.arg.lines) :
    /\ Len(op.arg.lines[i]) > Len(op.arg.header)
    /\ Len(op.arg.lines[i]) > Len(op.arg.lines[1])

RefusedRow ==
  /\ Batch.err = "none" /\ Batch.rows # <<>>
  /\ \/ \E id \in BatchIds : ClashingId(id)
     \/ ~(Batch.columns \subseteq TableColumns)

C8_DeleteIdempotent ==
  (op.name = "delete" /\ strip(op.arg) # <<>>) =>
    LET id == strip(op.arg)
    IN /\ msg.kind # "error"
       /\ id \notin Ids(store)
       /\ Len(store) = Len(prev) - Count(prev, id)
       /\ \A i \in 1..Len(prev) :
            prev[i].activity_id # id => CountRow(store, prev[i]) = CountRow(prev, prev[i])
       /\ id \notin Ids(prev) => store = prev
       /\ delete_activity(store, id) = [err |-> "none", table |-> store]

C8_Witness ==
  /\ op.name = "delete"
  /\ strip(op.arg) \in Ids(prev)
  /\ Len(store) >= 1 /\ Len(store) < Len(prev)

(* C9 as claimed: an import whose source has a column the Activity fields  *)
(* do not name succeeds and stores each row.                               *)
ExtraColumn ==
  /\ op.name = "import"
  /\ Batch.err = "none"
  /\ ~(Batch.columns \subseteq TableColumns)
  /\ ~(\E id \in BatchIds : ClashingId(id))

C9_Original ==
  ExtraColumn =>
    (msg.kind = "success" /\ Len(store) = Len(prev) + Len(Batch.rows))

(* C9 amended: such an import, when it has at least one data row, fails:   *)
(* the store refuses the unknown column, the error is shown, and the store *)
(* is as before.                                                           *)
C9_ExtraColumnRejected ==
  (ExtraColumn /\ Batch.rows # <<>>) =>
    (msg = Message("error", "OperationalError") /\ store = prev)

C9_Witness ==
  /\ ExtraColumn /\ Len(Batch.rows) >= 2
  /\ msg.kind = "error" /\ store = prev /\ Len(prev) >= 1

(* C3: the DELETE and the INSERT of an upsert are one unit: a fault after  *)
(* the DELETE leaves the store with the prior record as it was, and no     *)
(* read that succeeds while the upsert runs misses both the old and the    *)
(* new record.                                                             *)
C3_UpsertAtomic ==
  [][/\ (InTxn /\ pc' = "idle" /\ msg' = Message("error", "Fault")) =>
          store' = prev
     /\ (InTxn /\ UNCHANGED <<store, prev, op, msg, work, pc, fig>>
           /\ df'.pc = pc /\ ~df'.fault
           /\ Stripped(op.arg).activity_id \in Ids(prev)) =>
          \E i \in 1..Len(df'.rows) :
            /\ df'.rows[i].activity_id = Stripped(op.arg).activity_id
            /\ \/ df'.rows[i] = Stripped(op.arg)
               \/ \E j \in 1..Len(prev) : prev[j] = df'.rows[i]]_vars

C3_Witness ==
  /\ pc = "idle" /\ msg = Message("error", "Fault") /\ store = prev
  /\ df = [rows |-> prev, fault |-> FALSE, pc |-> "deleted"]
  /\ \E i \in 1..Len(prev) :
       prev[i].activity_id = Stripped(op.arg).activity_id /\ prev[i] # Stripped(op.arg)

(* C10: in every day cell, for max_lines >= 1: a day with more events     *)
(* than max_lines shows max_lines lines and the overflow count of the      *)
(* rest (lines + overflow = events of the day); any other day shows all    *)
(* its events and no overflow annotation.                                  *)
EventsOn(starts, day) ==
  Cardinality({i \in 1..Len(starts) :
    /\ starts[i].start_dt.kind = "ts"
    /\ starts[i].start_dt.year = op.arg.year
    /\ starts[i].start_dt.month = op.arg.month
    /\ starts[i].start_dt.day = day
    /\ \/ op.arg.suppliers = <<>>
       \/ \E k \in 1..Len(op.arg.suppliers) :
            op.arg.suppliers[k] = starts[i].row.supplier_name})

C10_OverflowInvariant ==
  LET starts == with_start_dt(store)
  IN (/\ op.name = "layout" /\ op.arg.max_lines >= 1
      /\ \A i \in 1..Len(starts) : starts[i].start_dt.kind # "error") =>
       /\ fig.kind = "figure"
       /\ \A d \in 1..DaysInMonth(op.arg.year, op.arg.month) :
            \E r \in 1..fig.rows, c \in 1..7 : fig.cells[r][c].day = d
       /\ \A r \in 1..fig.rows, c \in 1..7 :
            LET cell == fig.cells[r][c]
                total == EventsOn(starts, cell.day)
            IN cell.day # 0 =>
                 IF total > op.arg.max_lines
                 THEN /\ Len(cell.lines) = op.arg.max_lines
                      /\ cell.overflow = total - op.arg.max_lines
                      /\ Len(cell.lines) + cell.overflow = total
                 ELSE /\ Len(cell.lines) = total
                      /\ cell.overflow = 0

C10_Witness ==
  /\ op.name = "layout" /\ op.arg.max_lines = MaxLines /\ fig.kind = "figure"
  /\ \E r \in 1..fig.rows, c \in 1..7 :
       /\ fig.cells[r][c].day = 5
       /\ Len(fig.cells[r][c].lines) = MaxLines
       /\ fig.cells[r][c].overflow >= 1

(* C11: with max_lines = 0 the grid is returned, every day with events    *)
(* shows no line and the overflow annotation counting all its events, and  *)
(* every day without events shows its day number alone.                    *)
C11_ZeroLinesOverflowOnly ==
  LET starts == with_start_dt(store)
  IN (/\ op.name = "layout" /\ op.arg.max_lines = 0
      /\ \A i \in 1..Len(starts) : starts[i].start_dt.kind # "error") =>
       /\ fig.kind = "figure"
       /\ \A r \in 1..fig.rows, c \in 1..7 :
            LET cell == fig.cells[r][c]
            IN cell.day # 0 =>
                 /\ cell.lines = <<>>
                 /\ cell.overflow = EventsOn(starts, cell.day)

(* C12: in the returned grid the events of day d are exactly the           *)
(* activities starting on day d of the requested year and month whose      *)
(* supplier passes the filter, ascending by start time, activities with    *)
(* the same start time in the order they have in the input.  The grid      *)
(* shows the first max_lines of that list and counts the rest.             *)
OnDay(starts, day) ==
  SelectSeq(starts, LAMBDA r :
    /\ r.start_dt.kind = "ts"
    /\ r.start_dt.year = op.arg.year
    /\ r.start_dt.month = op.arg.month
    /\ r.start_dt.day = day
    /\ \/ op.arg.suppliers = <<>>
       \/ \E k \in 1..Len(op.arg.suppliers) :
            op.arg.suppliers[k] = r.row.supplier_name)

RECURSIVE InsertBefore(_, _)
InsertBefore(r, sorted) ==
  IF sorted = <<>> THEN <<r>>
  ELSE IF SortKey(r) <= SortKey(Head(sorted)) THEN <<r>> \o sorted
  ELSE <<Head(sorted)>> \o InsertBefore(r, Tail(sorted))

RECURSIVE StableSort(_)
StableSort(rows) ==
  IF rows = <<>> THEN <<>>
  ELSE InsertBefore(Head(rows), StableSort(Tail(rows)))

====
